---- MODULE Spec2Model ----
(***************************************************************************)
(* Model of financial_simulator.py, a Streamlit script that projects a     *)
(* savings plan against an inflation-adjusted goal.                        *)
(*                                                                         *)
(* The script is re-run from top to bottom after every widget interaction. *)
(* The state is the widget state of the session (preset, the four number   *)
(* inputs, the two sliders) and the namespace of the running script with   *)
(* its position pc.  Python floats are modelled as exact rationals over    *)
(* arbitrary-precision integers, so that an equality between two formulas  *)
(* is decided by the arithmetic and a division by zero is an exception.    *)
(***************************************************************************)
EXTENDS Integers, Sequences, FiniteSets, TLC

(***************************************************************************)
(* Arbitrary-precision naturals: little-endian digit sequences in radix    *)
(* Base without leading zero digits; << >> is zero.                        *)
(***************************************************************************)
Base == 10 * 10 * 10

RECURSIVE BigOf(_)
BigOf(k) == IF k = 0 THEN << >> ELSE <<k % Base>> \o BigOf(k \div Base)

Digit(a, i) == IF i <= Len(a) THEN a[i] ELSE 0

Max(a, b) == IF a >= b THEN a ELSE b

Min(a, b) == IF a <= b THEN a ELSE b

RECURSIVE BigTrim(_)
BigTrim(a) ==
    IF a = << >> THEN a
    ELSE IF a[Len(a)] = 0 THEN BigTrim(SubSeq(a, 1, Len(a) - 1)) ELSE a

\* the digits of the natural whose i-th place holds the integer a[i]: carries
\* and borrows are passed upwards
RECURSIVE BigCarry(_, _, _, _)
BigCarry(a, i, carry, acc) ==
    IF i > Len(a)
    THEN IF carry = 0 THEN BigTrim(acc)
         ELSE BigCarry(a, i, carry \div Base, Append(acc, carry % Base))
    ELSE BigCarry(a, i + 1, (a[i] + carry) \div Base,
                  Append(acc, (a[i] + carry) % Base))

BigNorm(a) == BigCarry(a, 1, 0, << >>)

BigAdd(a, b) == BigNorm([i \in 1..Max(Len(a), Len(b)) |-> Digit(a, i) + Digit(b, i)])

\* a - b for a >= b
BigSub(a, b) == BigNorm([i \in 1..Len(a) |-> a[i] - Digit(b, i)])

\* -1, 0, 1 as a < b, a = b, a > b
RECURSIVE BigCmpFrom(_, _, _)
BigCmpFrom(a, b, i) ==
    IF i = 0 THEN 0
    ELSE IF a[i] < b[i] THEN -1
    ELSE IF a[i] > b[i] THEN 1
    ELSE BigCmpFrom(a, b, i - 1)

BigCmp(a, b) ==
    IF Len(a) < Len(b) THEN -1
    ELSE IF Len(a) > Len(b) THEN 1
    ELSE BigCmpFrom(a, b, Len(a))

\* the sum of a[i] * b[k + 1 - i] for i in lo..hi
RECURSIVE BigConv(_, _, _, _, _)
BigConv(a, b, k, lo, hi) ==
    IF lo > hi THEN 0
    ELSE a[lo] * b[k + 1 - lo] + BigConv(a, b, k, lo + 1, hi)

BigMul(a, b) ==
    IF a = << >> \/ b = << >> THEN << >>
    ELSE BigNorm([k \in 1..(Len(a) + Len(b) - 1) |->
                     BigConv(a, b, k, Max(1, k + 1 - Len(b)), Min(Len(a), k))])

(***************************************************************************)
(* Signed integers [neg, mag] and rationals [n, d] with d > 0.  A rational *)
(* is not kept in lowest terms; QCmp compares by cross multiplication.     *)
(***************************************************************************)
ZOf(k) == [neg |-> k < 0, mag |-> BigOf(IF k < 0 THEN -k ELSE k)]

ZNeg(x) == [neg |-> (~x.neg) /\ x.mag # << >>, mag |-> x.mag]

ZAdd(x, y) ==
    IF x.neg = y.neg THEN [neg |-> x.neg, mag |-> BigAdd(x.mag, y.mag)]
    ELSE LET c == BigCmp(x.mag, y.mag)
         IN IF c = 0 THEN [neg |-> FALSE, mag |-> << >>]
            ELSE IF c > 0 THEN [neg |-> x.neg, mag |-> BigSub(x.mag, y.mag)]
            ELSE [neg |-> y.neg, mag |-> BigSub(y.mag, x.mag)]

ZMul(x, y) ==
    LET m == BigMul(x.mag, y.mag)
    IN [neg |-> (x.neg # y.neg) /\ m # << >>, mag |-> m]

ZSign(x) == IF x.mag = << >> THEN 0 ELSE IF x.neg THEN -1 ELSE 1

ZPos(m) == [neg |-> FALSE, mag |-> m]

Q(a, b) == [n |-> ZOf(a), d |-> BigOf(b)]

QInt(k) == Q(k, 1)

QSign(x) == ZSign(x.n)

QIsZero(x) == QSign(x) = 0

\* the number of low zero digits that numerator a and denominator b share
RECURSIVE LowZeros(_, _, _)
LowZeros(a, b, k) ==
    IF k < Len(a) /\ k < Len(b) /\ a[k + 1] = 0 /\ b[k + 1] = 0
    THEN LowZeros(a, b, k + 1) ELSE k

\* numerator m over denominator d with the common power of Base cancelled
QMake(neg, m, d) ==
    LET k == LowZeros(m, d, 0)
    IN [n |-> [neg |-> neg /\ m # << >>, mag |-> SubSeq(m, k + 1, Len(m))],
        d |-> SubSeq(d, k + 1, Len(d))]

QNeg(x) == [n |-> ZNeg(x.n), d |-> x.d]

QAdd(x, y) ==
    IF x.d = y.d THEN [n |-> ZAdd(x.n, y.n), d |-> x.d]
    ELSE LET s == ZAdd(ZMul(x.n, ZPos(y.d)), ZMul(y.n, ZPos(x.d)))
         IN QMake(s.neg, s.mag, BigMul(x.d, y.d))

QSub(x, y) == QAdd(x, QNeg(y))

QMul(x, y) == QMake(x.n.neg # y.n.neg, BigMul(x.n.mag, y.n.mag), BigMul(x.d, y.d))

\* x / y for y # 0
QDiv(x, y) == QMake(x.n.neg # y.n.neg, BigMul(x.n.mag, y.d), BigMul(x.d, y.n.mag))

QAbs(x) == [n |-> ZPos(x.n.mag), d |-> x.d]

RECURSIVE QPowNat(_, _)
QPowNat(x, t) == IF t = 0 THEN QInt(1) ELSE QMul(QPowNat(x, t - 1), x)

\* x ** t for an integer t; a negative t needs x # 0
QPow(x, t) == IF t >= 0 THEN QPowNat(x, t) ELSE QDiv(QInt(1), QPowNat(x, -t))

QCmp(x, y) == QSign(QSub(x, y))

QEq(x, y) == QCmp(x, y) = 0

QLe(x, y) == QCmp(x, y) <= 0

QLt(x, y) == QCmp(x, y) < 0


(***************************************************************************)
(* The state.                                                              *)
(***************************************************************************)
VARIABLES
    \* the session's widget state
    preset,                 \* the selectbox "Select a Goal Template"
    entry,                  \* the value typed into each number input, if any
    return_pct,             \* slider "Expected Annual Return (%)"
    inflation_pct,          \* slider "Inflation Rate (%)"
    \* the running script
    pc,                     \* the block of the script to run next
    exc,                    \* the uncaught exception that ended the run
    default_goal, default_horizon, default_savings, default_monthly,
    current_savings, monthly_contribution, goal_amount, time_horizon,
    annual_return, inflation_rate,
    real_return, future_value, inflation_adjusted_goal, shortfall_or_surplus,
    pct_vs_goal,            \* the delta of the "Inflation-Adjusted Goal" metric
    months, monthly_values, monthly_goal,
    branch,                 \* the arm of the recommendation taken
    additional_monthly, new_fv, extended_fv,
    \* a direct call of calculate_future_value: arguments and results
    fv_args, fv_results

session == <<preset, entry, return_pct, inflation_pct>>

namespace ==
    <<default_goal, default_horizon, default_savings, default_monthly,
      current_savings, monthly_contribution, goal_amount, time_horizon,
      annual_return, inflation_rate,
      real_return, future_value, inflation_adjusted_goal, shortfall_or_surplus,
      pct_vs_goal, months, monthly_values, monthly_goal,
      branch, additional_monthly, new_fv, extended_fv>>

harness == <<fv_args, fv_results>>

vars == <<session, pc, exc, namespace, harness>>

(***************************************************************************)
(* Bounds of the model.                                                    *)
(***************************************************************************)
\* the longest time horizon, in years, whose monthly series is evaluated
MaxHorizon == 2
\* the largest period count of a direct call of calculate_future_value
MaxPeriods == 3

Presets == {"Custom", "Education", "EB-5 Visa", "Property", "Retiring Abroad"}

Fields == {"savings", "monthly", "goal", "horizon"}

\* the values a user types into a number input; the monthly contribution is
\* left at its preset default
Entries ==
    [savings |-> {0},
     monthly |-> {},
     goal    |-> {0, 17600},
     horizon |-> {-1} \cup (1..MaxHorizon)]

\* the slider positions explored
ReturnPcts == {0, 7, 10}
InflationPcts == {0, 2, 10}

NoEntry == [set |-> FALSE, v |-> 0]

\* a name of the script that is not bound yet, and a bound one
Unbound == [def |-> FALSE, val |-> QInt(0)]
Bound(q) == [def |-> TRUE, val |-> q]
UnboundInt == [def |-> FALSE, val |-> 0]
BoundInt(k) == [def |-> TRUE, val |-> k]

\* the outcome of a call: a value, or the exception it raised
Return(q) == [raised |-> "none", val |-> q]
Raise(e) == [raised |-> e, val |-> QInt(0)]

(***************************************************************************)
(* The functions of the script.                                            *)
(***************************************************************************)
\* a faulty table, the horizons of two templates exchanged: PresetTable must
\* tell it from the table of lines 44-68
PresetDefaultsSwapped(p) ==
    IF p = "Education" THEN
        [default_goal |-> 250000, default_horizon |-> 18,
         default_savings |-> 10000, default_monthly |-> 500]
    ELSE IF p = "EB-5 Visa" THEN
        [default_goal |-> 800000, default_horizon |-> 7,
         default_savings |-> 100000, default_monthly |-> 10000]
    ELSE IF p = "Property" THEN
        [default_goal |-> 400000, default_horizon |-> 5,
         default_savings |-> 20000, default_monthly |-> 1000]
    ELSE IF p = "Retiring Abroad" THEN
        [default_goal |-> 500000, default_horizon |-> 15,
         default_savings |-> 50000, default_monthly |-> 2000]
    ELSE
        [default_goal |-> 100000, default_horizon |-> 10,
         default_savings |-> 10000, default_monthly |-> 500]

\* lines 44-68: the defaults a goal template sets
PresetDefaults(p) ==
    IF p = "Education" THEN
        [default_goal |-> 250000, default_horizon |-> 18,
         default_savings |-> 10000, default_monthly |-> 500]
    ELSE IF p = "EB-5 Visa" THEN
        [default_goal |-> 800000, default_horizon |-> 5,
         default_savings |-> 100000, default_monthly |-> 10000]
    ELSE IF p = "Property" THEN
        [default_goal |-> 400000, default_horizon |-> 7,
         default_savings |-> 20000, default_monthly |-> 1000]
    ELSE IF p = "Retiring Abroad" THEN
        [default_goal |-> 500000, default_horizon |-> 15,
         default_savings |-> 50000, default_monthly |-> 2000]
    ELSE
        [default_goal |-> 100000, default_horizon |-> 10,
         default_savings |-> 10000, default_monthly |-> 500]

\* the default each number input is created with under template p
WidgetDefault(p, f) ==
    IF f = "savings" THEN PresetDefaults(p).default_savings
    ELSE IF f = "monthly" THEN PresetDefaults(p).default_monthly
    ELSE IF f = "goal" THEN PresetDefaults(p).default_goal
    ELSE PresetDefaults(p).default_horizon

\* st.sidebar.number_input(label, value=value): the value typed into the
\* widget, else the value it was created with.  No minimum or maximum is given.
number_input(f, value) == IF entry[f].set THEN entry[f].v ELSE value

\* st.sidebar.slider(...) / 100
slider_fraction(pct) == QDiv(QInt(pct), QInt(100))

\* a faulty future value, the principal compounded at 1 - r: Monotone must
\* tell it from lines 85-88
calculate_future_value_sign(p, c, r, t) ==
    LET fv_savings == QMul(p, QPow(QSub(QInt(1), r), t))
    IN IF QIsZero(r) THEN Raise("ZeroDivisionError")
       ELSE LET fv_contributions ==
                    QMul(QMul(c, QDiv(QSub(QPow(QAdd(QInt(1), r), t), QInt(1)), r)),
                         QAdd(QInt(1), r))
            IN Return(QAdd(fv_savings, fv_contributions))

\* lines 85-88.  Dividing a float by a zero float raises ZeroDivisionError.
calculate_future_value(p, c, r, t) ==
    LET fv_savings == QMul(p, QPow(QAdd(QInt(1), r), t))
    IN IF QIsZero(r) THEN Raise("ZeroDivisionError")
       ELSE LET fv_contributions ==
                    QMul(QMul(c, QDiv(QSub(QPow(QAdd(QInt(1), r), t), QInt(1)), r)),
                         QAdd(QInt(1), r))
            IN Return(QAdd(fv_savings, fv_contributions))

\* line 95
inflation_adjusted(goal, rate, t) == QMul(QInt(goal), QPow(QAdd(QInt(1), rate), t))

\* line 127: np.arange(1, time_horizon * 12 + 1)
arange_months(horizon) == [i \in 1..(horizon * 12) |-> i]

\* a faulty series point, the contribution annualized: MonthlySeries must tell
\* it from lines 129-134
monthly_value_annualized(savings, monthly, rate, t) ==
    calculate_future_value(QInt(savings), QInt(monthly * 12), QDiv(rate, QInt(12)), t)

\* lines 129-134: one point of the monthly series
monthly_value(savings, monthly, rate, t) ==
    calculate_future_value(QInt(savings), QInt(monthly), QDiv(rate, QInt(12)), t)

\* line 141: np.linspace(start, stop, num), end point included
linspace(start, stop, num) ==
    LET step == IF num > 1 THEN QDiv(QSub(stop, start), QInt(num - 1)) ELSE QInt(0)
    IN [i \in 1..num |->
           IF num > 1 /\ i = num THEN stop
           ELSE QAdd(QMul(QInt(i - 1), step), start)]

\* a faulty test, a zero gap counted as a shortfall: BranchBySign must tell it
\* from line 156
is_shortfall_or_zero(gap) == QLe(gap, QInt(0))

\* line 156: the test that selects the shortfall arm
is_shortfall(gap) == QLt(gap, QInt(0))

\* line 157: the extra monthly contribution; both divisors can be zero
additional_monthly_of(gap, rate, t) ==
    IF QIsZero(rate) THEN Raise("ZeroDivisionError")
    ELSE LET annuity == QDiv(QSub(QPow(QAdd(QInt(1), rate), t), QInt(1)), rate)
         IN IF QIsZero(annuity) THEN Raise("ZeroDivisionError")
            ELSE Return(QDiv(QDiv(QAbs(gap), annuity), QInt(12)))

\* line 165: the projection with the return raised by one percentage point
return_variant(savings, monthly, rate, t) ==
    calculate_future_value(QInt(savings), QInt(monthly * 12),
                           QAdd(rate, Q(1, 100)), t)

\* line 170: the projection with the horizon extended by one year
horizon_variant(savings, monthly, rate, t) ==
    calculate_future_value(QInt(savings), QInt(monthly * 12), rate, t + 1)

(***************************************************************************)
(* The session: every widget interaction starts the script over in a fresh *)
(* namespace, whatever block the previous run had reached.                 *)
(***************************************************************************)
FreshNamespace ==
    /\ default_goal = UnboundInt /\ default_horizon = UnboundInt
    /\ default_savings = UnboundInt /\ default_monthly = UnboundInt
    /\ current_savings = UnboundInt /\ monthly_contribution = UnboundInt
    /\ goal_amount = UnboundInt /\ time_horizon = UnboundInt
    /\ annual_return = Unbound /\ inflation_rate = Unbound
    /\ real_return = Unbound /\ future_value = Unbound
    /\ inflation_adjusted_goal = Unbound /\ shortfall_or_surplus = Unbound
    /\ pct_vs_goal = Unbound
    /\ months = << >> /\ monthly_values = << >> /\ monthly_goal = << >>
    /\ branch = "none"
    /\ additional_monthly = Unbound /\ new_fv = Unbound /\ extended_fv = Unbound

Rerun ==
    /\ pc' = "presets"
    /\ exc' = "none"
    /\ default_goal' = UnboundInt /\ default_horizon' = UnboundInt
    /\ default_savings' = UnboundInt /\ default_monthly' = UnboundInt
    /\ current_savings' = UnboundInt /\ monthly_contribution' = UnboundInt
    /\ goal_amount' = UnboundInt /\ time_horizon' = UnboundInt
    /\ annual_return' = Unbound /\ inflation_rate' = Unbound
    /\ real_return' = Unbound /\ future_value' = Unbound
    /\ inflation_adjusted_goal' = Unbound /\ shortfall_or_surplus' = Unbound
    /\ pct_vs_goal' = Unbound
    /\ months' = << >> /\ monthly_values' = << >> /\ monthly_goal' = << >>
    /\ branch' = "none"
    /\ additional_monthly' = Unbound /\ new_fv' = Unbound /\ extended_fv' = Unbound
    /\ UNCHANGED harness

\* lines 38-41.  A number input is identified by its label and its arguments:
\* one whose default the new template changes is a new widget showing that
\* default, one whose default stays the same keeps what was typed into it.
SelectPreset(p) ==
    /\ p # preset
    /\ preset' = p
    /\ entry' = [f \in Fields |->
                    IF WidgetDefault(p, f) # WidgetDefault(preset, f)
                    THEN NoEntry ELSE entry[f]]
    /\ UNCHANGED <<return_pct, inflation_pct>>
    /\ Rerun

\* lines 73-78: the user types v into the number input f
EnterNumber(f, v) ==
    /\ entry[f] # [set |-> TRUE, v |-> v]
    /\ entry' = [entry EXCEPT ![f] = [set |-> TRUE, v |-> v]]
    /\ UNCHANGED <<preset, return_pct, inflation_pct>>
    /\ Rerun

\* line 81
SetReturn(k) ==
    /\ k # return_pct
    /\ return_pct' = k
    /\ UNCHANGED <<preset, entry, inflation_pct>>
    /\ Rerun

\* line 82
SetInflation(k) ==
    /\ k # inflation_pct
    /\ inflation_pct' = k
    /\ UNCHANGED <<preset, entry, return_pct>>
    /\ Rerun

(***************************************************************************)
(* The script, block by block.  An uncaught exception ends the run at the  *)
(* block that raised it.                                                   *)
(***************************************************************************)
Running(block) == pc = block /\ exc = "none"

\* lines 44-68
RunPresets ==
    /\ Running("presets")
    /\ default_goal' = BoundInt(PresetDefaults(preset).default_goal)
    /\ default_horizon' = BoundInt(PresetDefaults(preset).default_horizon)
    /\ default_savings' = BoundInt(PresetDefaults(preset).default_savings)
    /\ default_monthly' = BoundInt(PresetDefaults(preset).default_monthly)
    /\ pc' = "inputs"
    /\ UNCHANGED <<session, exc, harness,
                   current_savings, monthly_contribution, goal_amount, time_horizon,
                   annual_return, inflation_rate,
                   real_return, future_value, inflation_adjusted_goal,
                   shortfall_or_surplus, pct_vs_goal,
                   months, monthly_values, monthly_goal,
                   branch, additional_monthly, new_fv, extended_fv>>

\* lines 73-82
RunInputs ==
    /\ Running("inputs")
    /\ current_savings' = BoundInt(number_input("savings", default_savings.val))
    /\ monthly_contribution' = BoundInt(number_input("monthly", default_monthly.val))
    /\ goal_amount' = BoundInt(number_input("goal", default_goal.val))
    /\ time_horizon' = BoundInt(number_input("horizon", default_horizon.val))
    /\ annual_return' = Bound(slider_fraction(return_pct))
    /\ inflation_rate' = Bound(slider_fraction(inflation_pct))
    /\ pc' = "calc"
    /\ UNCHANGED <<session, exc, harness,
                   default_goal, default_horizon, default_savings, default_monthly,
                   real_return, future_value, inflation_adjusted_goal,
                   shortfall_or_surplus, pct_vs_goal,
                   months, monthly_values, monthly_goal,
                   branch, additional_monthly, new_fv, extended_fv>>

\* lines 91-96
RunCalculations ==
    /\ Running("calc")
    /\ LET rr == QSub(annual_return.val, inflation_rate.val)
           fv == calculate_future_value(QInt(current_savings.val),
                                        QInt(monthly_contribution.val * 12),
                                        rr, time_horizon.val)
           goal == inflation_adjusted(goal_amount.val, inflation_rate.val,
                                      time_horizon.val)
       IN /\ real_return' = Bound(rr)
          /\ IF fv.raised # "none"
             THEN /\ exc' = fv.raised
                  /\ UNCHANGED <<pc, future_value, inflation_adjusted_goal,
                                 shortfall_or_surplus>>
             ELSE /\ future_value' = Bound(fv.val)
                  /\ inflation_adjusted_goal' = Bound(goal)
                  /\ shortfall_or_surplus' = Bound(QSub(fv.val, goal))
                  /\ pc' = "tab1"
                  /\ UNCHANGED exc
    /\ UNCHANGED <<session, harness,
                   default_goal, default_horizon, default_savings, default_monthly,
                   current_savings, monthly_contribution, goal_amount, time_horizon,
                   annual_return, inflation_rate, pct_vs_goal,
                   months, monthly_values, monthly_goal,
                   branch, additional_monthly, new_fv, extended_fv>>

\* lines 101-117: the two metrics; line 116 divides by the adjusted goal
RunOverview ==
    /\ Running("tab1")
    /\ IF QIsZero(inflation_adjusted_goal.val)
       THEN /\ exc' = "ZeroDivisionError"
            /\ UNCHANGED <<pc, pct_vs_goal>>
       ELSE /\ pct_vs_goal' =
                  Bound(QMul(QSub(QDiv(future_value.val, inflation_adjusted_goal.val),
                                  QInt(1)),
                             QInt(100)))
            /\ pc' = "tab2"
            /\ UNCHANGED exc
    /\ UNCHANGED <<session, harness,
                   default_goal, default_horizon, default_savings, default_monthly,
                   current_savings, monthly_contribution, goal_amount, time_horizon,
                   annual_return, inflation_rate,
                   real_return, future_value, inflation_adjusted_goal,
                   shortfall_or_surplus,
                   months, monthly_values, monthly_goal,
                   branch, additional_monthly, new_fv, extended_fv>>

\* line 127.  Horizons of more than MaxHorizon years are not explored further.
RunMonths ==
    /\ Running("tab2")
    /\ time_horizon.val <= MaxHorizon
    /\ months' = arange_months(time_horizon.val)
    /\ pc' = "series"
    /\ UNCHANGED <<session, exc, harness,
                   default_goal, default_horizon, default_savings, default_monthly,
                   current_savings, monthly_contribution, goal_amount, time_horizon,
                   annual_return, inflation_rate,
                   real_return, future_value, inflation_adjusted_goal,
                   shortfall_or_surplus, pct_vs_goal,
                   monthly_values, monthly_goal,
                   branch, additional_monthly, new_fv, extended_fv>>

\* lines 128-136: one iteration of the list comprehension
RunSeriesPoint ==
    /\ Running("series")
    /\ Len(monthly_values) < Len(months)
    /\ LET t == months[Len(monthly_values) + 1]
           fv == monthly_value(current_savings.val, monthly_contribution.val,
                               real_return.val, t)
       IN IF fv.raised # "none"
          THEN /\ exc' = fv.raised
               /\ UNCHANGED monthly_values
          ELSE /\ monthly_values' = Append(monthly_values, fv.val)
               /\ UNCHANGED exc
    /\ UNCHANGED <<session, pc, harness,
                   default_goal, default_horizon, default_savings, default_monthly,
                   current_savings, monthly_contribution, goal_amount, time_horizon,
                   annual_return, inflation_rate,
                   real_return, future_value, inflation_adjusted_goal,
                   shortfall_or_surplus, pct_vs_goal,
                   months, monthly_goal,
                   branch, additional_monthly, new_fv, extended_fv>>

\* lines 138-143: the data frame with the straight-line goal path
RunDataFrame ==
    /\ Running("series")
    /\ Len(monthly_values) = Len(months)
    /\ monthly_goal' = linspace(QInt(current_savings.val),
                                inflation_adjusted_goal.val, Len(months))
    /\ pc' = "tab3"
    /\ UNCHANGED <<session, exc, harness,
                   default_goal, default_horizon, default_savings, default_monthly,
                   current_savings, monthly_contribution, goal_amount, time_horizon,
                   annual_return, inflation_rate,
                   real_return, future_value, inflation_adjusted_goal,
                   shortfall_or_surplus, pct_vs_goal,
                   months, monthly_values,
                   branch, additional_monthly, new_fv, extended_fv>>

\* lines 156-171: the shortfall arm
RunShortfall ==
    /\ Running("tab3")
    /\ is_shortfall(shortfall_or_surplus.val)
    /\ branch' = "shortfall"
    /\ LET am == additional_monthly_of(shortfall_or_surplus.val, annual_return.val,
                                       time_horizon.val)
           nf == return_variant(current_savings.val, monthly_contribution.val,
                                annual_return.val, time_horizon.val)
           ef == horizon_variant(current_savings.val, monthly_contribution.val,
                                 annual_return.val, time_horizon.val)
       IN IF am.raised # "none"
          THEN /\ exc' = am.raised
               /\ UNCHANGED <<pc, additional_monthly, new_fv, extended_fv>>
          ELSE IF nf.raised # "none"
          THEN /\ exc' = nf.raised
               /\ additional_monthly' = Bound(am.val)
               /\ UNCHANGED <<pc, new_fv, extended_fv>>
          ELSE IF ef.raised # "none"
          THEN /\ exc' = ef.raised
               /\ additional_monthly' = Bound(am.val)
               /\ new_fv' = Bound(nf.val)
               /\ UNCHANGED <<pc, extended_fv>>
          ELSE /\ additional_monthly' = Bound(am.val)
               /\ new_fv' = Bound(nf.val)
               /\ extended_fv' = Bound(ef.val)
               /\ pc' = "done"
               /\ UNCHANGED exc
    /\ UNCHANGED <<session, harness,
                   default_goal, default_horizon, default_savings, default_monthly,
                   current_savings, monthly_contribution, goal_amount, time_horizon,
                   annual_return, inflation_rate,
                   real_return, future_value, inflation_adjusted_goal,
                   shortfall_or_surplus, pct_vs_goal,
                   months, monthly_values, monthly_goal>>

\* lines 172-176: the surplus arm, three fixed suggestions
RunSurplus ==
    /\ Running("tab3")
    /\ ~is_shortfall(shortfall_or_surplus.val)
    /\ branch' = "surplus"
    /\ pc' = "done"
    /\ UNCHANGED <<session, exc, harness,
                   default_goal, default_horizon, default_savings, default_monthly,
                   current_savings, monthly_contribution, goal_amount, time_horizon,
                   annual_return, inflation_rate,
                   real_return, future_value, inflation_adjusted_goal,
                   shortfall_or_surplus, pct_vs_goal,
                   months, monthly_values, monthly_goal,
                   additional_monthly, new_fv, extended_fv>>

(***************************************************************************)
(* The application: a new session shows the Custom template, empty number  *)
(* inputs and the sliders at 7 and 2, and runs the script.                 *)
(***************************************************************************)
Init ==
    /\ preset = "Custom"
    /\ entry = [f \in Fields |-> NoEntry]
    /\ return_pct = 7
    /\ inflation_pct = 2
    /\ pc = "presets"
    /\ exc = "none"
    /\ FreshNamespace
    /\ fv_args = << >>
    /\ fv_results = << >>

Next ==
    \/ \E p \in Presets : SelectPreset(p)
    \/ \E f \in Fields : \E v \in Entries[f] : EnterNumber(f, v)
    \/ \E k \in ReturnPcts : SetReturn(k)
    \/ \E k \in InflationPcts : SetInflation(k)
    \/ RunPresets
    \/ RunInputs
    \/ RunCalculations
    \/ RunOverview
    \/ RunMonths
    \/ RunSeriesPoint
    \/ RunDataFrame
    \/ RunShortfall
    \/ RunSurplus

Spec == Init /\ [][Next]_vars

(***************************************************************************)
(* calculate_future_value called directly, on one argument list and on a   *)
(* second one that differs from it in at most one argument.                *)
(***************************************************************************)
FVPrincipals == {0, 1, 10000}
FVContributions == {0, 1, 6000}
FVRates == {Q(-10, 100), Q(0, 100), Q(5, 1200), Q(5, 100), Q(21, 100)}
FVPeriods == 0..MaxPeriods

FVArgs == [p : FVPrincipals, c : FVContributions, r : FVRates, t : FVPeriods]

\* the number of arguments in which a and b differ
Differences(a, b) ==
    (IF a.p # b.p THEN 1 ELSE 0) + (IF a.c # b.c THEN 1 ELSE 0)
    + (IF QEq(a.r, b.r) THEN 0 ELSE 1) + (IF a.t # b.t THEN 1 ELSE 0)

InitFV ==
    /\ preset = "Custom"
    /\ entry = [f \in Fields |-> NoEntry]
    /\ return_pct = 7
    /\ inflation_pct = 2
    /\ pc = "presets"
    /\ exc = "none"
    /\ FreshNamespace
    /\ fv_args \in {ab \in FVArgs \X FVArgs : Differences(ab[1], ab[2]) <= 1}
    /\ fv_results = << >>

\* the next argument list is evaluated
CallFutureValue ==
    /\ Len(fv_results) < Len(fv_args)
    /\ LET a == fv_args[Len(fv_results) + 1]
       IN fv_results' = Append(fv_results,
                               calculate_future_value(QInt(a.p), QInt(a.c), a.r, a.t))
    /\ UNCHANGED <<session, pc, exc, namespace, fv_args>>

NextFV == CallFutureValue

SpecFV == InitFV /\ [][NextFV]_vars

(***************************************************************************)
(* Properties.                                                             *)
(***************************************************************************)
InputsRead == pc \notin {"presets", "inputs"}

CalculationsRun == pc \notin {"presets", "inputs"} /\ real_return.def

RecommendationRun == pc = "done" \/ (pc = "tab3" /\ exc # "none")

DataFrameBuilt == pc = "tab3"

\* the inputs of section 3 of the specification
InDomain ==
    /\ current_savings.val >= 0
    /\ monthly_contribution.val >= 0
    /\ goal_amount.val > 0
    /\ time_horizon.val > 0
    /\ return_pct \in 0..20
    /\ inflation_pct \in 0..10

\* C1: for inputs in the domain, whenever the real return is zero the annual
\* projection raises no error and is the limit p + c*t of the formula, c being
\* the annualized contribution.
ZeroRateIsLimit ==
    (CalculationsRun /\ InDomain /\ QIsZero(real_return.val)) =>
        /\ exc = "none"
        /\ future_value.def
        /\ QEq(future_value.val,
               QInt(current_savings.val
                    + monthly_contribution.val * 12 * time_horizon.val))

\* C2: a run that reaches the recommendation takes exactly one arm, the surplus
\* arm if and only if the gap is >= 0 (zero included) and then computes nothing
\* further, the shortfall arm if and only if the gap is < 0.
BranchBySign ==
    RecommendationRun =>
        /\ branch \in {"surplus", "shortfall"}
        /\ (branch = "surplus") <=> (QSign(shortfall_or_surplus.val) >= 0)
        /\ (branch = "shortfall") <=> (QSign(shortfall_or_surplus.val) < 0)
        /\ (branch = "surplus") =>
               /\ ~additional_monthly.def /\ ~new_fv.def /\ ~extended_fv.def
               /\ pc = "done"

\* C2, the boundary: a finished run with a gap of exactly zero in the surplus arm
BranchBySignReached ==
    /\ pc = "done"
    /\ branch = "surplus"
    /\ QIsZero(shortfall_or_surplus.val)

\* C3: for inputs in the domain, the shortfall arm with a nominal return of
\* zero completes without an error and computes the extra contribution as
\* |gap| / years / 12.
ZeroReturnShortfallCompletes ==
    (RecommendationRun /\ InDomain /\ branch = "shortfall"
     /\ QIsZero(annual_return.val)) =>
        /\ exc = "none"
        /\ pc = "done"
        /\ additional_monthly.def
        /\ time_horizon.val # 0
        /\ QEq(additional_monthly.val,
               QDiv(QDiv(QAbs(shortfall_or_surplus.val), QInt(time_horizon.val)),
                    QInt(12)))

\* C4: for a negative horizon or a goal that is not positive the run produces
\* no future value, adjusted goal, gap, monthly series or recommendation.
InvalidInputRejected ==
    (InputsRead /\ (time_horizon.val < 0 \/ goal_amount.val <= 0)) =>
        /\ ~future_value.def
        /\ ~inflation_adjusted_goal.def
        /\ ~shortfall_or_surplus.def
        /\ monthly_values = << >>
        /\ branch = "none"

\* C5: for a horizon > 0 the data frame holds the months 1, 2, ..., 12*horizon,
\* for each month m the future value of the savings with the monthly
\* contribution at a twelfth of the real return after m periods, and a goal
\* path of the same length.
MonthlySeries ==
    (DataFrameBuilt /\ time_horizon.val > 0) =>
        /\ Len(months) = 12 * time_horizon.val
        /\ \A m \in 1..Len(months) : months[m] = m
        /\ Len(monthly_values) = Len(months)
        /\ Len(monthly_goal) = Len(months)
        /\ \A m \in 1..Len(monthly_values) :
               LET fv == calculate_future_value(
                             QInt(current_savings.val),
                             QInt(monthly_contribution.val),
                             QDiv(QSub(annual_return.val, inflation_rate.val),
                                  QInt(12)),
                             m)
               IN fv.raised = "none" /\ QEq(monthly_values[m], fv.val)

\* C5: the data frame of a run over the longest horizon, with contributions
MonthlySeriesReached ==
    /\ DataFrameBuilt
    /\ time_horizon.val = MaxHorizon
    /\ monthly_contribution.val > 0
    /\ Len(monthly_values) = 12 * MaxHorizon

\* C6: for inputs in the domain, in the shortfall arm the return variant is the base projection with
\* only the rate raised by 0.01 and the horizon variant is the base projection
\* with only the period count raised by 1, the base call being the one at the
\* real return.
WhatIfOneInputChanged ==
    (pc = "done" /\ InDomain /\ branch = "shortfall") =>
        LET byReturn == calculate_future_value(
                            QInt(current_savings.val),
                            QInt(monthly_contribution.val * 12),
                            QAdd(real_return.val, Q(1, 100)),
                            time_horizon.val)
            byHorizon == calculate_future_value(
                             QInt(current_savings.val),
                             QInt(monthly_contribution.val * 12),
                             real_return.val,
                             time_horizon.val + 1)
        IN /\ byReturn.raised = "none" /\ QEq(new_fv.val, byReturn.val)
           /\ byHorizon.raised = "none" /\ QEq(extended_fv.val, byHorizon.val)

\* C7: for inputs in the domain the calculations produce a future value >= 0,
\* the adjusted goal goal_amount * (1 + inflation_rate)^time_horizon > 0 and
\* the gap, their difference.
ProjectionProduced ==
    (CalculationsRun /\ InDomain) =>
        /\ future_value.def
        /\ QSign(future_value.val) >= 0
        /\ inflation_adjusted_goal.def
        /\ QEq(inflation_adjusted_goal.val,
               QMul(QInt(goal_amount.val),
                    QPow(QAdd(QInt(1), Q(inflation_pct, 100)), time_horizon.val)))
        /\ QSign(inflation_adjusted_goal.val) > 0
        /\ shortfall_or_surplus.def
        /\ QEq(shortfall_or_surplus.val,
               QSub(future_value.val, inflation_adjusted_goal.val))

\* C8: with a contribution of 0, a principal >= 0, any rate (positive, negative
\* or zero) and a period count >= 1, the call returns p * (1 + r)^t.
NoContributionIsCompounding ==
    \A i \in 1..Len(fv_results) :
        (fv_args[i].c = 0 /\ fv_args[i].t >= 1) =>
            /\ fv_results[i].raised = "none"
            /\ QEq(fv_results[i].val,
                   QMul(QInt(fv_args[i].p),
                        QPow(QAdd(QInt(1), fv_args[i].r), fv_args[i].t)))

\* C9: of two calls with rates > 0 that differ in one argument only, the call
\* with the larger principal, contribution, rate or period count returns the
\* larger or an equal value.
Monotone ==
    (Len(fv_results) = 2 /\ QSign(fv_args[1].r) > 0 /\ QSign(fv_args[2].r) > 0
     /\ Differences(fv_args[1], fv_args[2]) <= 1
     /\ fv_args[1].p <= fv_args[2].p /\ fv_args[1].c <= fv_args[2].c
     /\ QLe(fv_args[1].r, fv_args[2].r) /\ fv_args[1].t <= fv_args[2].t) =>
        /\ fv_results[1].raised = "none"
        /\ fv_results[2].raised = "none"
        /\ QLe(fv_results[1].val, fv_results[2].val)

\* C9: two calls that differ in the rate, the second at the larger rate
MonotoneReached ==
    /\ Len(fv_results) = 2
    /\ QSign(fv_args[1].r) > 0
    /\ QLt(fv_args[1].r, fv_args[2].r)
    /\ fv_args[1].c > 0
    /\ fv_args[1].t = MaxPeriods
    /\ QLt(fv_results[1].val, fv_results[2].val)

\* the table of section 6 of the specification
TableRow(goal, horizon, savings, monthly) ==
    /\ default_goal.val = goal
    /\ default_horizon.val = horizon
    /\ default_savings.val = savings
    /\ default_monthly.val = monthly

\* what a number input yields: the value typed, else the template's default
TypedOr(f, default) == IF entry[f].set THEN entry[f].v ELSE default.val

\* C10: once the inputs are read, the four defaults are the template's row of
\* the table, each primary input is the value typed by the user if there is
\* one and the default otherwise, and the two rates are the slider positions,
\* whatever the template.
PresetTable ==
    InputsRead =>
        /\ preset = "Education" => TableRow(250000, 18, 10000, 500)
        /\ preset = "EB-5 Visa" => TableRow(800000, 5, 100000, 10000)
        /\ preset = "Property" => TableRow(400000, 7, 20000, 1000)
        /\ preset = "Retiring Abroad" => TableRow(500000, 15, 50000, 2000)
        /\ preset = "Custom" => TableRow(100000, 10, 10000, 500)
        /\ goal_amount.val = TypedOr("goal", default_goal)
        /\ time_horizon.val = TypedOr("horizon", default_horizon)
        /\ current_savings.val = TypedOr("savings", default_savings)
        /\ monthly_contribution.val = TypedOr("monthly", default_monthly)
        /\ QEq(annual_return.val, Q(return_pct, 100))
        /\ QEq(inflation_rate.val, Q(inflation_pct, 100))

\* C10: a template other than Custom with one input typed and one defaulted,
\* the sliders moved before the template was picked
PresetTableReached ==
    /\ InputsRead
    /\ preset = "EB-5 Visa"
    /\ entry["goal"].set /\ goal_amount.val = 17600
    /\ ~entry["savings"].set /\ current_savings.val = 100000
    /\ ~entry["horizon"].set /\ time_horizon.val = 5
    /\ return_pct = 10

====
